---- MODULE Spec2Model ----
(***************************************************************************)
(* Model of part4/Backend/run_simple.py: the Flask + SQLAlchemy (SQLite)   *)
(* backend of HBnB.  The state is the three tables (user, place, review),  *)
(* the set of JWTs issued so far, and, for every request being served, the *)
(* position of its handler and the values it has read.                     *)
(*                                                                         *)
(* Storage semantics that the handlers rely on:                            *)
(*  - a SELECT reads the last committed tables (pysqlite opens no          *)
(*    transaction for a SELECT);                                           *)
(*  - the first DELETE/UPDATE/INSERT of a session opens a transaction and  *)
(*    takes SQLite's single write lock, which is held until commit or      *)
(*    rollback; what it wrote is visible to other connections only after   *)
(*    the commit;                                                          *)
(*  - user.email is UNIQUE (enforced at INSERT);                           *)
(*  - the ForeignKey columns are not enforced: SQLite ignores them unless  *)
(*    PRAGMA foreign_keys=ON is issued, and run_simple.py never issues it. *)
(***************************************************************************)
EXTENDS Integers, Sequences, FiniteSets, TLC

\* ---------------------------------------------------------------- bounds
\* Commits that write to a table (an insert, an update, a delete) after init_db.
MaxWrites == 2

\* Entries appended to the lists of the in-memory servers after they start.
MaxPosts == 2

\* The requests served concurrently (Flask's threaded development server).
Procs == {"t1", "t2"}

\* ---------------------------------------------------------------- values
\* A null reference (owner_id NULL, no identity).
NoId == <<"none", 0>>

\* A request field that holds a number, or is missing/null: <<n>> or <<>>.
Missing == <<>>

\* A request field that holds a string: missing, null and '' are all "".

\* Strings that the code trims or lowercases are sequences of characters.
Whitespace == {" "}

LowerChar(c) == IF c = "A" THEN "a" ELSE c

Lower(s) == [i \in 1..Len(s) |-> LowerChar(s[i])]

RECURSIVE LStrip(_)
LStrip(s) == IF s # <<>> /\ Head(s) \in Whitespace THEN LStrip(Tail(s)) ELSE s

RECURSIVE RStrip(_)
RStrip(s) ==
    IF s # <<>> /\ s[Len(s)] \in Whitespace THEN RStrip(SubSeq(s, 1, Len(s) - 1)) ELSE s

\* str.strip()
Strip(s) == RStrip(LStrip(s))

\* (data.get('email') or '').strip().lower()
NormalizeEmail(e) == Lower(Strip(e))

\* Python's `not v` for a string field, held as characters or as one value.
NotChars(v) == v = <<>>

\* A check for a missing field that lets every value through.
NotStr_Never(v) == FALSE

NotStr(v) == v = ""

admin_email == <<"admin@example.com">>
admin_pw == "AdminPass123"
demo_email == <<"demo@example.com">>
demo_pw == "DemoPass123"

\* werkzeug's generate_password_hash / check_password_hash: a one-way tag
\* that only the same password verifies against.
generate_password_hash(pw) == <<"hash", pw>>

\* A verification that accepts every password.
check_password_hash_Any(h, pw) == TRUE

check_password_hash(h, pw) == h = <<"hash", pw>>

\* gen_id(): uuid4, modelled as a tag and a serial number.  Rows written by
\* init_db (or found by it) carry the tags "u0" and "p0"; rows created by the
\* handlers carry "u", "p", "r" and the table's creation count.
gen_id(kind, n) == <<kind, n>>

\* ---------------------------------------------------------------- rows
UserRow(id, fn, ln, email, pwhash, admin) ==
    [id |-> id, first_name |-> fn, last_name |-> ln, email |-> email,
     password |-> pwhash, is_admin |-> admin]

PlaceRow(id, title, description, price, owner) ==
    [id |-> id, title |-> title, description |-> description, price |-> price,
     owner_id |-> owner]

ReviewRow(id, user, place, text, rating) ==
    [id |-> id, user_id |-> user, place_id |-> place, text |-> text, rating |-> rating]

Store(u, p, r) == [users |-> u, places |-> p, reviews |-> r]

\* development.db before init_db runs: absent (create_all makes empty
\* tables), or left by an earlier deployment of the schema in which a place
\* has an owner and the demo account had been made an administrator.
EmptyStore == Store({}, {}, {})

LegacyStore ==
    Store({UserRow(gen_id("u0", 1), "Admin", "User", admin_email,
                   generate_password_hash(admin_pw), TRUE),
           UserRow(gen_id("u0", 2), "Demo", "User", demo_email,
                   generate_password_hash(demo_pw), TRUE)},
          {PlaceRow(gen_id("p0", 1), "Loft", "d", 80, gen_id("u0", 2))},
          {})

PriorStores == {EmptyStore, LegacyStore}

\* Serial number for the next row of a table holding `rows`.
NextSerial(rows) == Cardinality(rows) + 1

SeedPlaces(s) ==
    IF Cardinality(s.places) = 0
    THEN [s EXCEPT !.places =
            {PlaceRow(gen_id("p0", 1), "Beautiful Beach House", "d", 150, NoId),
             PlaceRow(gen_id("p0", 2), "Cozy Cabin", "d", 100, NoId),
             PlaceRow(gen_id("p0", 3), "Modern Apartment", "d", 200, NoId),
             PlaceRow(gen_id("p0", 4), "Beautiful Beach", "d", 150, NoId)}]
    ELSE s

EnsureAccount(s, fn, email, pw, admin) ==
    IF \E u \in s.users : u.email = email
    THEN s
    ELSE [s EXCEPT !.users = @ \cup
            {UserRow(gen_id("u0", NextSerial(s.users)), fn, "User", email,
                     generate_password_hash(pw), admin)}]

OnlyAdmin(s) ==
    [s EXCEPT !.users =
        {[u EXCEPT !.is_admin = (u.email = admin_email)] : u \in s.users}]

EnsureBeach(s) ==
    IF \E p \in s.places : p.title = "Beautiful Beach" /\ p.price = 150
    THEN s
    ELSE [s EXCEPT !.places = @ \cup
            {PlaceRow(gen_id("p0", NextSerial(s.places)), "Beautiful Beach", "d", 150, NoId)}]

\* init_db(): the store the server starts on.
init_db(prior) ==
    EnsureBeach(OnlyAdmin(
        EnsureAccount(EnsureAccount(SeedPlaces(prior), "Admin", admin_email, admin_pw, TRUE),
                      "Demo", demo_email, demo_pw, FALSE)))

\* ---------------------------------------------------------------- tokens
\* A JWT: the claims login/register put in it, and whether its signature is
\* one made with JWT_SECRET_KEY.
Token(u) == [sub |-> u.id, email |-> u.email, is_admin |-> u.is_admin, signed |-> TRUE]

\* What a request may carry instead of an issued token: no Authorization
\* header, or a token with a signature that does not verify, whatever it claims.
NoToken == [sub |-> NoId, email |-> <<>>, is_admin |-> FALSE, signed |-> FALSE]

ForgedToken ==
    [sub |-> gen_id("u0", 1), email |-> admin_email, is_admin |-> TRUE, signed |-> FALSE]

\* verify_jwt_in_request() returns normally.
Verified(tok) == tok.signed

\* The tokens that clients hold when the server starts: JWT_SECRET_KEY is the
\* same from one run of the server to the next, so a token that an earlier
\* run issued to an identity of the prior store still verifies.
PriorTokens(prior) == {Token(u) : u \in prior.users}

\* ---------------------------------------------------------------- state
VARIABLES
    users,      \* table user
    places,     \* table place
    reviews,    \* table review
    tokens,     \* the tokens create_access_token has issued
    made,       \* rows the handlers created so far, per table (u, p, r); commits (w)
    req,        \* per request thread: the handler's position and its locals
    lock,       \* the thread whose session holds SQLite's write lock, or "free"
    work,       \* the uncommitted tables of the session that holds the lock
    resp,       \* the response being sent: handler, status code, error text
    threaded,   \* app.run(threaded=...): whether requests are served concurrently
    wide,       \* whether clients also send the requests of the wide input sets
    PLACES,     \* mock_server.py: the list PLACES
    REVIEWS,    \* mock_server.py: the list REVIEWS
    reviews_db, \* server_simple.py: the list reviews_db
    call        \* per request thread of mock_server.py: position and locals

stores == <<users, places, reviews>>

\* The state of the in-memory servers.
mock == <<PLACES, REVIEWS, reviews_db, call>>

\* The state of run_simple.py, the response aside.
backend == <<users, places, reviews, tokens, made, req, lock, work, threaded, wide>>

vars == <<users, places, reviews, tokens, made, req, lock, work, resp, threaded, wide, mock>>

Idle ==
    [pc |-> "idle", identity |-> NoId, id |-> NoId, text |-> <<>>, rating |-> 0,
     first_name |-> "", last_name |-> "", email |-> <<>>, password |-> ""]

NoWork == [places |-> {}, reviews |-> {}]

Reply(op, code, error) == [op |-> op, code |-> code, error |-> error]

NoReply == Reply("none", 0, "")

\* f"p{n}" and f"r{n}"
MockId(kind, n) == <<kind, n>>

MockPlace(id, title, description, price) ==
    [id |-> id, title |-> title, description |-> description, price |-> price]

MockReview(id, text, rating, user_id, place_id) ==
    [id |-> id, text |-> text, rating |-> rating, user_id |-> user_id, place_id |-> place_id]

SimpleReview(id, place_id, user_name, comment, rating) ==
    [id |-> id, place_id |-> place_id, user_name |-> user_name, comment |-> comment,
     rating |-> rating]

NoPlace == MockPlace(NoId, "", "", 0)

NoReview == MockReview(NoId, <<>>, 0, "", NoId)

MockIdle == [pc |-> "idle", place |-> NoPlace, review |-> NoReview]

\* The lists as the modules define them, and no request in progress.
MockStart ==
    /\ PLACES = <<MockPlace(MockId("p", 1), "Studio cosy", "d", 35),
                  MockPlace(MockId("p", 2), "Appartement moderne", "d", 80),
                  MockPlace(MockId("p", 3), "Maison de campagne", "d", 120)>>
    /\ REVIEWS = <<>>
    /\ reviews_db = <<>>
    /\ call = [p \in Procs |-> MockIdle]

Start ==
    /\ \E prior \in PriorStores :
         LET s == init_db(prior)
         IN /\ users = s.users
            /\ places = s.places
            /\ reviews = s.reviews
            /\ tokens = IF wide THEN PriorTokens(prior) ELSE {}
    /\ made = [u |-> 0, p |-> 0, r |-> 0, w |-> 0]
    /\ req = [p \in Procs |-> Idle]
    /\ lock = "free"
    /\ work = NoWork
    /\ resp = NoReply

\* Flask's development server serves each request in a thread of its own.
\* The interleavings are explored on the narrow input sets.
Init == wide = FALSE /\ threaded = TRUE /\ Start /\ MockStart

\* The server started with threaded=False serves one request at a time.
\* The sequences of requests are explored on the wide input sets.
InitSeq == wide = TRUE /\ threaded = FALSE /\ Start /\ MockStart

\* Thread p is at pc and may take its next step: the last response has gone
\* out, and a server that is not threaded has no other request in progress.
At(p, pc) ==
    /\ resp = NoReply
    /\ req[p].pc = pc
    /\ threaded \/ \A q \in Procs \ {p} : req[q].pc = "idle"

\* The bound on the run: another commit may still write.
CanWrite == made.w < MaxWrites

\* ---------------------------------------------------------------- inputs
\* What a client can put in the Authorization header.
Presented == tokens \cup {NoToken, ForgedToken}

MissingId == gen_id("x", 0)

\* A key missing from the JSON body of an update.
Absent == "Absent"

\* The places and the users that requests address: the first two places and
\* the demo account that init_db left, and an id that does not exist; in the
\* wide set, the admin account too.
PlaceIdInputs == {gen_id("p0", 1), gen_id("p0", 2), MissingId}

UserIdInputs ==
    {gen_id("u0", 2), MissingId} \cup (IF wide THEN {gen_id("u0", 1)} ELSE {})

ReviewIdInputs == {r.id : r \in reviews} \cup {MissingId}

\* JSON bodies of the requests.  The wide sets add the values that a
\* validation should refuse, and further content for the same place.
LoginBodies ==
    {[email |-> <<>>, password |-> "pw"],
     [email |-> admin_email, password |-> admin_pw],
     [email |-> admin_email, password |-> "pw"],
     [email |-> demo_email, password |-> demo_pw],
     [email |-> <<"A", " ">>, password |-> "pw"],
     [email |-> demo_email, password |-> ""]}

RegisterBodies ==
    {[first_name |-> "n", last_name |-> "n", email |-> <<" ", "A">>, password |-> "pw",
      is_admin |-> FALSE],
     [first_name |-> "n", last_name |-> "n", email |-> <<"a">>, password |-> "pw",
      is_admin |-> TRUE],
     [first_name |-> "n", last_name |-> "", email |-> <<"a">>, password |-> "pw",
      is_admin |-> FALSE],
     [first_name |-> "", last_name |-> "n", email |-> <<"a">>, password |-> "pw",
      is_admin |-> TRUE],
     [first_name |-> "n", last_name |-> "n", email |-> <<>>, password |-> "pw",
      is_admin |-> FALSE],
     [first_name |-> "n", last_name |-> "n", email |-> <<" ">>, password |-> "pw",
      is_admin |-> FALSE],
     [first_name |-> "n", last_name |-> "n", email |-> <<"a">>, password |-> "",
      is_admin |-> FALSE],
     [first_name |-> "n", last_name |-> "n", email |-> demo_email, password |-> "pw",
      is_admin |-> FALSE]}

CreatePlaceBodies ==
    {[title |-> "Hut", description |-> "d", price |-> <<50>>],
     [title |-> "", description |-> "d", price |-> <<50>>],
     [title |-> "Hut", description |-> "d", price |-> Missing]}
    \cup (IF wide THEN {[title |-> "Hut", description |-> "d", price |-> <<-5>>]} ELSE {})

UpdatePlaceBodies ==
    {[title |-> "Hut", description |-> Absent, price |-> Missing],
     [title |-> Absent, description |-> "d", price |-> <<50>>]}
    \cup (IF wide THEN {[title |-> "", description |-> Absent, price |-> <<-5>>]} ELSE {})

ReviewBodies ==
    {[place_id |-> gen_id("p0", 1), text |-> <<"x">>, rating |-> <<5>>],
     [place_id |-> gen_id("p0", 1), text |-> <<"x", " ">>, rating |-> <<5>>],
     [place_id |-> gen_id("p0", 2), text |-> <<"x">>, rating |-> <<5>>],
     [place_id |-> MissingId, text |-> <<"x">>, rating |-> <<5>>],
     [place_id |-> gen_id("p0", 1), text |-> <<>>, rating |-> <<5>>],
     [place_id |-> gen_id("p0", 1), text |-> <<"x">>, rating |-> Missing]}
    \cup (IF wide
          THEN {[place_id |-> gen_id("p0", 1), text |-> <<" ">>, rating |-> <<5>>],
                [place_id |-> gen_id("p0", 1), text |-> <<"x">>, rating |-> <<9>>],
                [place_id |-> gen_id("p0", 1), text |-> <<"y">>, rating |-> <<5>>]}
          ELSE {})

\* ---------------------------------------------------------------- gate
\* admin_required: the response that short-circuits the request, or Pass.
Pass == [code |-> 0, error |-> ""]

\* admin_required without the role check.
admin_required_AnyUser(tok) ==
    IF ~Verified(tok) THEN [code |-> 401, error |-> "Authentication required"] ELSE Pass

\* admin_required reading the role from the user table instead of the claims.
admin_required_Live(tok) ==
    IF ~Verified(tok) THEN [code |-> 401, error |-> "Authentication required"]
    ELSE IF ~\E u \in users : u.id = tok.sub /\ u.is_admin
    THEN [code |-> 403, error |-> "Admin privileges required"]
    ELSE Pass

admin_required(tok) ==
    IF ~Verified(tok) THEN [code |-> 401, error |-> "Authentication required"]
    ELSE IF ~tok.is_admin THEN [code |-> 403, error |-> "Admin privileges required"]
    ELSE Pass

Gated(op, tok) == Reply(op, admin_required(tok).code, admin_required(tok).error)

\* ---------------------------------------------------------------- auth
login(p, email_in, password) ==
    /\ At(p, "idle")
    /\ LET email == NormalizeEmail(email_in)
           found == {u \in users : u.email = email}
       IN IF NotChars(email) \/ NotStr(password)
          THEN /\ resp' = Reply("login", 400, "email and password required")
               /\ UNCHANGED tokens
          ELSE IF found = {} \/ ~check_password_hash((CHOOSE u \in found : TRUE).password, password)
          THEN /\ resp' = Reply("login", 401, "Invalid email or password")
               /\ UNCHANGED tokens
          ELSE /\ tokens' = tokens \cup {Token(CHOOSE u \in found : TRUE)}
               /\ resp' = Reply("login", 200, "")
    /\ UNCHANGED <<users, places, reviews, made, req, lock, work, threaded, wide, mock>>

\* register, up to the duplicate pre-check (the SELECT before the INSERT).
register(p, first_name, last_name, email_in, password) ==
    /\ At(p, "idle")
    /\ LET email == NormalizeEmail(email_in)
       IN IF NotChars(email) \/ NotStr(password) \/ NotStr(first_name) \/ NotStr(last_name)
          THEN /\ resp' = Reply("register", 400, "Missing fields")
               /\ UNCHANGED req
          ELSE IF \E u \in users : u.email = email
          THEN /\ resp' = Reply("register", 400, "Email already registered")
               /\ UNCHANGED req
          ELSE /\ CanWrite
               /\ req' = [req EXCEPT ![p] =
                            [Idle EXCEPT !.pc = "register_commit", !.first_name = first_name,
                                         !.last_name = last_name, !.email = email,
                                         !.password = generate_password_hash(password)]]
               /\ UNCHANGED resp
    /\ UNCHANGED <<users, places, reviews, tokens, made, lock, work, threaded, wide, mock>>

\* user.email without unique=True.
EmailTaken_NotUnique(email) == FALSE

\* The UNIQUE constraint on user.email, as the INSERT meets it.
EmailTaken(email) == \E u \in users : u.email = email

\* register: db.session.commit() and what follows it.
register_commit(p) ==
    /\ At(p, "register_commit")
    /\ lock = "free"
    /\ IF EmailTaken(req[p].email)
       THEN \* IntegrityError: rollback
            /\ resp' = Reply("register", 400, "Email already registered")
            /\ UNCHANGED <<users, tokens, made>>
       ELSE /\ CanWrite
            /\ LET user == UserRow(gen_id("u", made.u + 1), req[p].first_name,
                                   req[p].last_name, req[p].email, req[p].password, FALSE)
               IN /\ users' = users \cup {user}
                  /\ tokens' = tokens \cup {Token(user)}
            /\ made' = [made EXCEPT !.u = @ + 1, !.w = @ + 1]
            /\ resp' = Reply("register", 201, "")
    /\ req' = [req EXCEPT ![p] = Idle]
    /\ UNCHANGED <<places, reviews, lock, work, threaded, wide, mock>>

\* ---------------------------------------------------------------- places

create_place(p, tok, title, description, price) ==
    /\ At(p, "idle")
    /\ IF admin_required(tok) # Pass
       THEN /\ resp' = Gated("create_place", tok)
            /\ UNCHANGED <<places, made>>
       ELSE IF NotStr(title) \/ price = Missing
       THEN /\ resp' = Reply("create_place", 400, "Missing fields")
            /\ UNCHANGED <<places, made>>
       ELSE /\ lock = "free"
            /\ CanWrite
            /\ places' = places \cup
                 {PlaceRow(gen_id("p", made.p + 1), title, description, price[1], NoId)}
            /\ made' = [made EXCEPT !.p = @ + 1, !.w = @ + 1]
            /\ resp' = Reply("create_place", 201, "")
    /\ UNCHANGED <<users, reviews, tokens, req, lock, work, threaded, wide, mock>>

\* Place.query.get / Review.query.get / User.query.get: the row, as a set.
Get(table, id) == {row \in table : row.id = id}

Updated(pl, title, description, price) ==
    [pl EXCEPT !.title = IF title = Absent THEN @ ELSE title,
               !.description = IF description = Absent THEN @ ELSE description,
               !.price = IF price = Missing THEN @ ELSE price[1]]

update_place(p, tok, place_id, title, description, price) ==
    /\ At(p, "idle")
    /\ IF admin_required(tok) # Pass
       THEN /\ resp' = Gated("update_place", tok)
            /\ UNCHANGED <<places, made>>
       ELSE IF Get(places, place_id) = {}
       THEN /\ resp' = Reply("update_place", 404, "Place not found")
            /\ UNCHANGED <<places, made>>
       ELSE /\ lock = "free"
            /\ CanWrite
            /\ places' = {IF pl.id = place_id THEN Updated(pl, title, description, price) ELSE pl :
                            pl \in places}
            /\ made' = [made EXCEPT !.w = @ + 1]
            /\ resp' = Reply("update_place", 200, "")
    /\ UNCHANGED <<users, reviews, tokens, req, lock, work, threaded, wide, mock>>

\* delete_place, up to Place.query.get.
delete_place(p, tok, place_id) ==
    /\ At(p, "idle")
    /\ IF admin_required(tok) # Pass
       THEN /\ resp' = Gated("delete_place", tok)
            /\ UNCHANGED req
       ELSE IF Get(places, place_id) = {}
       THEN /\ resp' = Reply("delete_place", 404, "Place not found")
            /\ UNCHANGED req
       ELSE /\ CanWrite
            /\ req' = [req EXCEPT ![p] =
                         [Idle EXCEPT !.pc = "delete_place_reviews", !.id = place_id]]
            /\ UNCHANGED resp
    /\ UNCHANGED <<users, places, reviews, tokens, made, lock, work, threaded, wide, mock>>

\* delete_place without the deletion of the reviews.
PlaceReviewsDeleted_None(rs, place_id) == rs

\* Review.query.filter_by(place_id=place_id).delete(): the session's first
\* write, inside the transaction it opens.
PlaceReviewsDeleted(rs, place_id) == {r \in rs : r.place_id # place_id}

delete_place_reviews(p) ==
    /\ At(p, "delete_place_reviews")
    /\ lock = "free"
    /\ lock' = p
    /\ work' = [places |-> places, reviews |-> PlaceReviewsDeleted(reviews, req[p].id)]
    /\ req' = [req EXCEPT ![p].pc = "delete_place_commit"]
    /\ UNCHANGED <<users, places, reviews, tokens, made, resp, threaded, wide, mock>>

\* db.session.delete(p); db.session.commit()
delete_place_commit(p) ==
    /\ At(p, "delete_place_commit")
    /\ lock = p
    /\ CanWrite
    /\ places' = {pl \in work.places : pl.id # req[p].id}
    /\ reviews' = work.reviews
    /\ lock' = "free"
    /\ work' = NoWork
    /\ made' = [made EXCEPT !.w = @ + 1]
    /\ resp' = Reply("delete_place", 200, "")
    /\ req' = [req EXCEPT ![p] = Idle]
    /\ UNCHANGED <<users, tokens, threaded, wide, mock>>

\* ---------------------------------------------------------------- reviews
\* POST /api/v1/reviews, up to the duplicate pre-check.
\* The duplicate pre-check finding nothing.
ExactDuplicate_Never(rs, identity, place_id, clean_text, rating) == FALSE

ExactDuplicate(rs, identity, place_id, clean_text, rating) ==
    \E r \in rs : /\ r.user_id = identity
                  /\ r.place_id = place_id
                  /\ r.text = clean_text
                  /\ r.rating = rating

create_review(p, tok, place_id, text, rating) ==
    /\ At(p, "idle")
    /\ IF ~Verified(tok)
       THEN /\ resp' = Reply("create_review", 401, "Authentication required")
            /\ UNCHANGED req
       ELSE IF NotChars(text) \/ rating = Missing
       THEN /\ resp' = Reply("create_review", 400, "Missing fields")
            /\ UNCHANGED req
       ELSE IF Get(places, place_id) = {}
       THEN /\ resp' = Reply("create_review", 404, "Place not found")
            /\ UNCHANGED req
       ELSE IF ExactDuplicate(reviews, tok.sub, place_id, Strip(text), rating[1])
       THEN /\ resp' = Reply("create_review", 409, "Duplicate review detected")
            /\ UNCHANGED req
       ELSE /\ CanWrite
            /\ req' = [req EXCEPT ![p] =
                         [Idle EXCEPT !.pc = "create_review_commit", !.identity = tok.sub,
                                      !.id = place_id, !.text = Strip(text),
                                      !.rating = rating[1]]]
            /\ UNCHANGED resp
    /\ UNCHANGED <<users, places, reviews, tokens, made, lock, work, threaded, wide, mock>>

\* db.session.add(review); db.session.commit()
create_review_commit(p) ==
    /\ At(p, "create_review_commit")
    /\ lock = "free"
    /\ CanWrite
    /\ reviews' = reviews \cup
         {ReviewRow(gen_id("r", made.r + 1), req[p].identity, req[p].id, req[p].text,
                    req[p].rating)}
    /\ made' = [made EXCEPT !.r = @ + 1, !.w = @ + 1]
    /\ resp' = Reply("create_review", 201, "")
    /\ req' = [req EXCEPT ![p] = Idle]
    /\ UNCHANGED <<users, places, tokens, lock, work, threaded, wide, mock>>

\* delete_review without the admin's exemption.
MayDeleteReview_OwnerOnly(tok, review) == review.user_id = tok.sub

\* allow delete if admin or owner of the review
MayDeleteReview(tok, review) == tok.is_admin \/ review.user_id = tok.sub

\* delete_review, up to the permission check.
delete_review(p, tok, review_id) ==
    /\ At(p, "idle")
    /\ IF ~Verified(tok)
       THEN /\ resp' = Reply("delete_review", 401, "Authentication required")
            /\ UNCHANGED req
       ELSE IF Get(reviews, review_id) = {}
       THEN /\ resp' = Reply("delete_review", 404, "Review not found")
            /\ UNCHANGED req
       ELSE IF ~MayDeleteReview(tok, CHOOSE r \in Get(reviews, review_id) : TRUE)
       THEN /\ resp' = Reply("delete_review", 403, "Unauthorized action")
            /\ UNCHANGED req
       ELSE /\ CanWrite
            /\ req' = [req EXCEPT ![p] =
                         [Idle EXCEPT !.pc = "delete_review_commit", !.id = review_id]]
            /\ UNCHANGED resp
    /\ UNCHANGED <<users, places, reviews, tokens, made, lock, work, threaded, wide, mock>>

\* db.session.delete(review); db.session.commit()
delete_review_commit(p) ==
    /\ At(p, "delete_review_commit")
    /\ lock = "free"
    /\ CanWrite
    /\ reviews' = {r \in reviews : r.id # req[p].id}
    /\ made' = [made EXCEPT !.w = @ + 1]
    /\ resp' = Reply("delete_review", 200, "")
    /\ req' = [req EXCEPT ![p] = Idle]
    /\ UNCHANGED <<users, places, tokens, lock, work, threaded, wide, mock>>

\* ---------------------------------------------------------------- users
list_users(p, tok) ==
    /\ At(p, "idle")
    /\ resp' = IF admin_required(tok) # Pass THEN Gated("list_users", tok)
               ELSE Reply("list_users", 200, "")
    /\ UNCHANGED <<users, places, reviews, tokens, made, req, lock, work, threaded, wide, mock>>

\* delete_user, up to User.query.get.
delete_user(p, tok, user_id) ==
    /\ At(p, "idle")
    /\ IF admin_required(tok) # Pass
       THEN /\ resp' = Gated("delete_user", tok)
            /\ UNCHANGED req
       ELSE IF Get(users, user_id) = {}
       THEN /\ resp' = Reply("delete_user", 404, "User not found")
            /\ UNCHANGED req
       ELSE /\ CanWrite
            /\ req' = [req EXCEPT ![p] =
                         [Idle EXCEPT !.pc = "delete_user_reviews", !.id = user_id]]
            /\ UNCHANGED resp
    /\ UNCHANGED <<users, places, reviews, tokens, made, lock, work, threaded, wide, mock>>

\* Review.query.filter_by(user_id=user_id).delete()
UserReviewsDeleted(rs, user_id) == {r \in rs : r.user_id # user_id}

delete_user_reviews(p) ==
    /\ At(p, "delete_user_reviews")
    /\ lock = "free"
    /\ lock' = p
    /\ work' = [places |-> places, reviews |-> UserReviewsDeleted(reviews, req[p].id)]
    /\ req' = [req EXCEPT ![p].pc = "delete_user_places"]
    /\ UNCHANGED <<users, places, reviews, tokens, made, resp, threaded, wide, mock>>

\* delete_user deleting the places of the user instead of disowning them.
OwnerNulled_PlacesDeleted(ps, user_id) == {pl \in ps : pl.owner_id # user_id}

\* Place.query.filter_by(owner_id=user_id).update({Place.owner_id: None})
OwnerNulled(ps, user_id) ==
    {IF pl.owner_id = user_id THEN [pl EXCEPT !.owner_id = NoId] ELSE pl : pl \in ps}

delete_user_places(p) ==
    /\ At(p, "delete_user_places")
    /\ lock = p
    /\ work' = [work EXCEPT !.places = OwnerNulled(work.places, req[p].id)]
    /\ req' = [req EXCEPT ![p].pc = "delete_user_commit"]
    /\ UNCHANGED <<users, places, reviews, tokens, made, lock, resp, threaded, wide, mock>>

\* db.session.delete(user); db.session.commit()
delete_user_commit(p) ==
    /\ At(p, "delete_user_commit")
    /\ lock = p
    /\ CanWrite
    /\ users' = {u \in users : u.id # req[p].id}
    /\ places' = work.places
    /\ reviews' = work.reviews
    /\ lock' = "free"
    /\ work' = NoWork
    /\ made' = [made EXCEPT !.w = @ + 1]
    /\ resp' = Reply("delete_user", 200, "")
    /\ req' = [req EXCEPT ![p] = Idle]
    /\ UNCHANGED <<tokens, threaded, wide, mock>>

\* ---------------------------------------------------------------- faults
\* The handler's except branch committing instead of rolling back.
Rollback_Commits(p) ==
    /\ lock' = IF lock = p THEN "free" ELSE lock
    /\ work' = IF lock = p THEN NoWork ELSE work
    /\ req' = [req EXCEPT ![p] = Idle]
    /\ reviews' = IF lock = p THEN work.reviews ELSE reviews
    /\ places' = IF lock = p THEN work.places ELSE places
    /\ UNCHANGED <<users, tokens, made, threaded, wide, mock>>

\* The store raises while a handler with an `except Exception` is writing:
\* db.session.rollback(), then the handler's 500.
Rollback(p) ==
    /\ lock' = IF lock = p THEN "free" ELSE lock
    /\ work' = IF lock = p THEN NoWork ELSE work
    /\ req' = [req EXCEPT ![p] = Idle]
    /\ UNCHANGED <<users, places, reviews, tokens, made, threaded, wide, mock>>

delete_place_failure(p) ==
    /\ At(p, "delete_place_reviews") \/ At(p, "delete_place_commit")
    /\ resp' = Reply("delete_place", 500, "Failed to delete place")
    /\ Rollback(p)

delete_user_failure(p) ==
    /\ At(p, "delete_user_reviews") \/ At(p, "delete_user_places") \/ At(p, "delete_user_commit")
    /\ resp' = Reply("delete_user", 500, "Failed to delete user")
    /\ Rollback(p)

delete_review_failure(p) ==
    /\ At(p, "delete_review_commit")
    /\ resp' = Reply("delete_review", 500, "Failed to delete review")
    /\ Rollback(p)

register_failure(p) ==
    /\ At(p, "register_commit")
    /\ resp' = Reply("register", 500, "Failed to create user")
    /\ Rollback(p)

\* ---------------------------------------------------------------- in-memory servers
\* mock_server.py (Flask, threaded) and server_simple.py (HTTPServer, one
\* request at a time) keep their data in module-level lists and number a new
\* entry len(list) + 1.

\* Entries appended to the in-memory lists since the servers started.
Posted == (Len(PLACES) - 3) + Len(REVIEWS) + Len(reviews_db)

\* The bound on the run: another entry may still be appended.
CanPost == Posted < MaxPosts

\* A string of n characters c.
Chars(c, n) == [i \in 1..n |-> c]

\* JSON bodies of the requests to the in-memory servers.
MockPlaceBodies ==
    {[title |-> "Hut", description |-> "d", price |-> <<50>>],
     [title |-> Absent, description |-> Absent, price |-> Missing]}

MockReviewBodies ==
    {[text |-> <<"x">>, rating |-> <<5>>, user_id |-> "u_a", place_id |-> MockId("p", 1)],
     [text |-> <<"y">>, rating |-> <<4>>, user_id |-> "u_a", place_id |-> MockId("p", 1)],
     [text |-> <<" ">>, rating |-> <<9>>, user_id |-> "u_b", place_id |-> MockId("p", 1)],
     [text |-> <<>>, rating |-> <<5>>, user_id |-> "u_b", place_id |-> MockId("p", 1)],
     [text |-> <<"x">>, rating |-> <<0>>, user_id |-> "u_b", place_id |-> MockId("p", 1)],
     [text |-> <<"x">>, rating |-> Missing, user_id |-> "u_b", place_id |-> MockId("p", 1)]}

SimpleReviewBodies ==
    {[place_id |-> "p1", comment |-> Chars("x", 10) \o <<" ">>, rating |-> <<5>>,
      user_name |-> "a"],
     [place_id |-> "p1", comment |-> <<" ">> \o Chars("x", 9) \o <<" ">>, rating |-> <<5>>,
      user_name |-> "a"],
     [place_id |-> "p1", comment |-> Chars(" ", 10), rating |-> <<5>>, user_name |-> "a"],
     [place_id |-> "p1", comment |-> Chars("x", 10), rating |-> <<6>>, user_name |-> "a"],
     [place_id |-> "p1", comment |-> Chars("x", 10), rating |-> <<0>>, user_name |-> "a"],
     [place_id |-> "p1", comment |-> Chars("x", 10), rating |-> <<1>>, user_name |-> ""]}

\* Thread p of mock_server.py is at pc and may take its next step.
MockAt(p, pc) ==
    /\ resp = NoReply
    /\ call[p].pc = pc

\* mock_server.py, POST /api/v1/places/: up to the dict that holds new_id.
places_list(p, title, description, price) ==
    /\ MockAt(p, "idle")
    /\ CanPost
    /\ call' = [call EXCEPT ![p] =
                  [MockIdle EXCEPT
                     !.pc = "places_append",
                     !.place = MockPlace(MockId("p", Len(PLACES) + 1),
                                         IF title = Absent THEN "Untitled" ELSE title,
                                         IF description = Absent THEN "" ELSE description,
                                         IF price = Missing THEN 0 ELSE price[1])]]
    /\ UNCHANGED <<backend, resp, PLACES, REVIEWS, reviews_db>>

\* PLACES.append(place)
places_append(p) ==
    /\ MockAt(p, "places_append")
    /\ CanPost
    /\ PLACES' = Append(PLACES, call[p].place)
    /\ call' = [call EXCEPT ![p] = MockIdle]
    /\ resp' = Reply("places_list", 201, "")
    /\ UNCHANGED <<backend, REVIEWS, reviews_db>>

\* Python's `not v` for a number field: None and 0.
NotNum(v) == v = Missing \/ v = <<0>>

\* The loop over REVIEWS: same user on the same place.
AlreadyReviewed(rs, user_id, place_id) ==
    \E i \in 1..Len(rs) : rs[i].user_id = user_id /\ rs[i].place_id = place_id

\* mock_server.py, POST /api/v1/reviews/: up to the dict that holds the new id.
reviews_list(p, text, rating, user_id, place_id) ==
    /\ MockAt(p, "idle")
    /\ IF NotChars(text) \/ NotNum(rating) \/ NotStr(user_id) \/ place_id = NoId
       THEN /\ resp' = Reply("reviews_list", 400, "Missing fields")
            /\ UNCHANGED call
       ELSE IF AlreadyReviewed(REVIEWS, user_id, place_id)
       THEN /\ resp' = Reply("reviews_list", 400, "You have already reviewed this place")
            /\ UNCHANGED call
       ELSE /\ CanPost
            /\ call' = [call EXCEPT ![p] =
                          [MockIdle EXCEPT
                             !.pc = "reviews_append",
                             !.review = MockReview(MockId("r", Len(REVIEWS) + 1), text,
                                                   rating[1], user_id, place_id)]]
            /\ UNCHANGED resp
    /\ UNCHANGED <<backend, PLACES, REVIEWS, reviews_db>>

\* REVIEWS.append(new)
reviews_append(p) ==
    /\ MockAt(p, "reviews_append")
    /\ CanPost
    /\ REVIEWS' = Append(REVIEWS, call[p].review)
    /\ call' = [call EXCEPT ![p] = MockIdle]
    /\ resp' = Reply("reviews_list", 201, "")
    /\ UNCHANGED <<backend, PLACES, reviews_db>>

\* server_simple.py, POST /api/reviews.  HTTPServer serves one request at a
\* time, so the handler runs from its first line to its last as one step.
handle_add_review(place_id, comment, rating, user_name) ==
    /\ resp = NoReply
    /\ IF NotStr(place_id) \/ NotChars(comment) \/ NotNum(rating) \/ NotStr(user_name)
       THEN /\ resp' = Reply("handle_add_review", 400, "Tous les champs sont requis")
            /\ UNCHANGED reviews_db
       ELSE IF rating[1] < 1 \/ rating[1] > 5
       THEN /\ resp' = Reply("handle_add_review", 400, "La note doit etre entre 1 et 5")
            /\ UNCHANGED reviews_db
       ELSE IF Len(Strip(comment)) < 10
       THEN /\ resp' = Reply("handle_add_review", 400,
                             "Le commentaire doit contenir au moins 10 caracteres")
            /\ UNCHANGED reviews_db
       ELSE /\ CanPost
            /\ reviews_db' = Append(reviews_db,
                                    SimpleReview(Len(reviews_db) + 1, place_id, user_name,
                                                 Strip(comment), rating[1]))
            /\ resp' = Reply("handle_add_review", 201, "")
    /\ UNCHANGED <<backend, PLACES, REVIEWS, call>>

\* ---------------------------------------------------------------- system
Handle(p) ==
    \/ \E b \in LoginBodies : login(p, b.email, b.password)
    \/ \E b \in RegisterBodies : register(p, b.first_name, b.last_name, b.email, b.password)
    \/ register_commit(p)
    \/ \E tok \in Presented, b \in CreatePlaceBodies :
         create_place(p, tok, b.title, b.description, b.price)
    \/ \E tok \in Presented, id \in PlaceIdInputs, b \in UpdatePlaceBodies :
         update_place(p, tok, id, b.title, b.description, b.price)
    \/ \E tok \in Presented, id \in PlaceIdInputs : delete_place(p, tok, id)
    \/ delete_place_reviews(p)
    \/ delete_place_commit(p)
    \/ \E tok \in Presented, b \in ReviewBodies :
         create_review(p, tok, b.place_id, b.text, b.rating)
    \/ create_review_commit(p)
    \/ \E tok \in Presented, id \in ReviewIdInputs : delete_review(p, tok, id)
    \/ delete_review_commit(p)
    \/ \E tok \in Presented : list_users(p, tok)
    \/ \E tok \in Presented, id \in UserIdInputs : delete_user(p, tok, id)
    \/ delete_user_reviews(p)
    \/ delete_user_places(p)
    \/ delete_user_commit(p)

Fail(p) ==
    \/ delete_place_failure(p)
    \/ delete_user_failure(p)
    \/ delete_review_failure(p)
    \/ register_failure(p)

\* The response reaches the client.  A handler's step and the sending of the
\* response it ends with are taken together: no other step comes between.
sent ==
    /\ resp # NoReply
    /\ resp' = NoReply
    /\ UNCHANGED <<users, places, reviews, tokens, made, req, lock, work, threaded, wide, mock>>

\* Requests on a store that does not fail.
Next == sent \/ \E p \in Procs : Handle(p)

\* Requests served concurrently.
Spec == Init /\ [][Next]_vars

\* Requests served one at a time.
SpecSeq == InitSeq /\ [][Next]_vars

\* Requests served concurrently, on a store that may fail.
NextFail == Next \/ \E p \in Procs : Fail(p)

SpecFail == Init /\ [][NextFail]_vars

\* The in-memory servers, mock_server.py threaded.
NextMock ==
    \/ sent
    \/ \E p \in Procs :
         \/ \E b \in MockPlaceBodies : places_list(p, b.title, b.description, b.price)
         \/ places_append(p)
         \/ \E b \in MockReviewBodies : reviews_list(p, b.text, b.rating, b.user_id, b.place_id)
         \/ reviews_append(p)
    \/ \E b \in SimpleReviewBodies :
         handle_add_review(b.place_id, b.comment, b.rating, b.user_name)

SpecMock == Init /\ [][NextMock]_vars

\* ---------------------------------------------------------------- claims
\* A request to one of the handlers behind admin_required, carrying tok.
AdminGatedRequest(p, tok) ==
    \/ \E b \in CreatePlaceBodies : create_place(p, tok, b.title, b.description, b.price)
    \/ \E id \in PlaceIdInputs, b \in UpdatePlaceBodies :
         update_place(p, tok, id, b.title, b.description, b.price)
    \/ \E id \in PlaceIdInputs : delete_place(p, tok, id)
    \/ list_users(p, tok)
    \/ \E id \in UserIdInputs : delete_user(p, tok, id)

AdminGatedOps == {"create_place", "update_place", "delete_place", "list_users", "delete_user"}

\* The step is thread p's first in one of those handlers.
StartsAdminGated(p) ==
    /\ req[p].pc = "idle"
    /\ resp'.op \in AdminGatedOps \/ req'[p].pc \in {"delete_place_reviews", "delete_user_reviews"}

\* C1: a request to an admin-gated handler whose token does not verify is
\* answered 401, one whose verified token has is_admin false is answered 403,
\* both leave the three tables and every handler's position unchanged, and
\* any other outcome is that of a verified token with is_admin true.
C1_AdminGate ==
    [][\A p \in Procs, tok \in Presented :
         (StartsAdminGated(p) /\ AdminGatedRequest(p, tok)) =>
           /\ ~tok.signed =>
                /\ resp'.code = 401 /\ resp'.error = "Authentication required"
                /\ UNCHANGED <<stores, req>>
           /\ (tok.signed /\ ~tok.is_admin) =>
                /\ resp'.code = 403 /\ resp'.error = "Admin privileges required"
                /\ UNCHANGED <<stores, req>>
           /\ (resp'.code \notin {401, 403}) => (tok \in tokens /\ tok.is_admin)]_vars

C1_Witness == resp = Reply("delete_user", 403, "Admin privileges required")

\* C2: delete_review of an existing review with a verified token goes on to
\* delete it exactly when the token's subject is the review's user_id or the
\* token is an admin's; otherwise it answers 403 and the review stays; the
\* deletion it goes on to answers 200 and leaves no review with that id.
C2_DeleteReview ==
    [][\A p \in Procs :
         /\ \A tok \in tokens, R \in reviews :
              delete_review(p, tok, R.id) =>
                IF tok.sub = R.user_id \/ tok.is_admin
                THEN req'[p].pc = "delete_review_commit" /\ req'[p].id = R.id
                ELSE /\ resp' = Reply("delete_review", 403, "Unauthorized action")
                     /\ R \in reviews'
                     /\ req'[p].pc = "idle"
         /\ delete_review_commit(p) =>
              /\ resp'.code = 200
              /\ reviews' = {r \in reviews : r.id # req[p].id}]_vars

C2_Witness == resp = Reply("delete_review", 403, "Unauthorized action")

SameContent(r1, r2) ==
    /\ r1.user_id = r2.user_id
    /\ r1.place_id = r2.place_id
    /\ r1.text = r2.text
    /\ r1.rating = r2.rating

NoDuplicateReviews == \A r1, r2 \in reviews : SameContent(r1, r2) => r1 = r2

\* C3: with requests served one after the other, Create Review with a text
\* and a rating by a user who already has a review of that place with the
\* same (trimmed) text and rating is answered 409 and adds no row, and no two
\* stored reviews have the same (user_id, place_id, text, rating).
C3_SecondIsDuplicate ==
    [][/\ \A p \in Procs, tok \in tokens, b \in ReviewBodies :
            ( /\ create_review(p, tok, b.place_id, b.text, b.rating)
              /\ b.text # <<>> /\ b.rating # Missing
              /\ \E r \in reviews : /\ r.user_id = tok.sub
                                    /\ r.place_id = b.place_id
                                    /\ r.text = Strip(b.text)
                                    /\ <<r.rating>> = b.rating )
            => /\ resp' = Reply("create_review", 409, "Duplicate review detected")
               /\ UNCHANGED <<stores, req>>
       /\ NoDuplicateReviews']_vars

C3_Witness == resp = Reply("create_review", 409, "Duplicate review detected")

\* C4: no two stored reviews share the same (user_id, place_id, text, rating).
C4_NoDuplicateReviews == NoDuplicateReviews

\* C5: no two identities have the same normalized email, and a register
\* whose email is taken, at the pre-check or at the INSERT, is answered
\* 'Email already registered' and adds no identity.
C5_UniqueEmail ==
    [][/\ \A p \in Procs :
            /\ \A b \in RegisterBodies :
                 ( /\ register(p, b.first_name, b.last_name, b.email, b.password)
                   /\ b.first_name # "" /\ b.last_name # "" /\ b.password # ""
                   /\ \E u \in users : u.email = Lower(Strip(b.email)) )
                 => /\ resp' = Reply("register", 400, "Email already registered")
                    /\ UNCHANGED <<stores, req>>
            /\ ( /\ register_commit(p)
                 /\ \E u \in users : u.email = req[p].email )
               => /\ resp' = Reply("register", 400, "Email already registered")
                  /\ UNCHANGED stores
       /\ \A u1, u2 \in users' :
            Lower(Strip(u1.email)) = Lower(Strip(u2.email)) => u1 = u2]_vars

\* A register that passed the pre-check and will meet the taken email at commit.
C5_Witness ==
    \E p \in Procs :
      /\ req[p].pc = "register_commit"
      /\ \E u \in users : u.email = req[p].email /\ u.id = gen_id("u", 1)

\* C6: every stored review's place_id is the id of a stored place.
C6_NoOrphanReviews == \A r \in reviews : \E pl \in places : pl.id = r.place_id

\* C7: every stored review's user_id is the id of a stored identity.
C7_ReviewAuthorExists == \A r \in reviews : \E u \in users : u.id = r.user_id

\* C8: the commit of delete_place for P answers 200 and leaves the places
\* other than P, the reviews of places other than P and all identities,
\* whatever the number of reviews P had.
C8_DeletePlace ==
    [][\A p \in Procs :
         delete_place_commit(p) =>
           /\ resp' = Reply("delete_place", 200, "")
           /\ places' = {pl \in places : pl.id # req[p].id}
           /\ reviews' = {r \in reviews : r.place_id # req[p].id}
           /\ users' = users]_vars

\* A place that had a review was deleted, and its review with it.
C8_Witness ==
    /\ resp = Reply("delete_place", 200, "")
    /\ made.r = 1
    /\ reviews = {}

\* C9: the commit of delete_user for U answers 200, removes U and the reviews
\* whose user_id is U, sets owner_id to null on the places U owned, and leaves
\* every other identity, review and place field as it was.
C9_DeleteIdentity ==
    [][\A p \in Procs :
         delete_user_commit(p) =>
           /\ resp' = Reply("delete_user", 200, "")
           /\ users' = {u \in users : u.id # req[p].id}
           /\ reviews' = {r \in reviews : r.user_id # req[p].id}
           /\ places' = {IF pl.owner_id = req[p].id THEN [pl EXCEPT !.owner_id = NoId] ELSE pl :
                           pl \in places}
           /\ {pl.id : pl \in places'} = {pl.id : pl \in places}]_vars

\* The demo account was deleted: its review is gone, the place it owned is kept.
C9_Witness ==
    /\ resp = Reply("delete_user", 200, "")
    /\ made.r = 1
    /\ reviews = {}
    /\ \E pl \in places : pl.title = "Loft" /\ pl.owner_id = NoId

CascadePcs ==
    {"delete_place_reviews", "delete_place_commit",
     "delete_user_reviews", "delete_user_places", "delete_user_commit"}

\* C10: a step of delete_place or delete_user after its lookup either leaves
\* the three tables as they are or is the commit of the whole cascade; a
\* storage failure in it answers 500 once, with the tables as they are and
\* the write lock released; and while a cascade holds the write lock the
\* tables change only by its own commit.
C10_AtomicCascade ==
    [][\A p \in Procs :
         /\ (req[p].pc \in CascadePcs /\ req'[p] # req[p]) =>
              \/ UNCHANGED stores /\ resp'.code \in {0, 500}
              \/ /\ req[p].pc = "delete_place_commit"
                 /\ resp' = Reply("delete_place", 200, "")
                 /\ places' = {pl \in places : pl.id # req[p].id}
                 /\ reviews' = {r \in reviews : r.place_id # req[p].id}
                 /\ users' = users
              \/ /\ req[p].pc = "delete_user_commit"
                 /\ resp' = Reply("delete_user", 200, "")
                 /\ users' = {u \in users : u.id # req[p].id}
                 /\ reviews' = {r \in reviews : r.user_id # req[p].id}
                 /\ places' = {IF pl.owner_id = req[p].id THEN [pl EXCEPT !.owner_id = NoId]
                               ELSE pl : pl \in places}
         /\ (delete_place_failure(p) \/ delete_user_failure(p)) =>
              /\ UNCHANGED stores
              /\ resp'.code = 500
              /\ req'[p].pc = "idle"
              /\ lock' # p
         /\ (lock = p /\ stores' # stores) =>
              (lock' = "free" /\ req[p].pc \in CascadePcs /\ req'[p].pc = "idle")]_vars

\* A cascading delete met a storage failure, and the reviews made before it
\* are stored.
C10_Witness ==
    /\ resp.code = 500
    /\ resp.op \in {"delete_place", "delete_user"}
    /\ reviews # {}

\* C11: register with an empty first_name, last_name, email or password is
\* answered 400 'Missing fields' and creates nothing; every identity that a
\* step creates has is_admin false, whatever is_admin the body carried, and a
\* register answered 201 created one identity and issued one token, whose
\* subject is that identity's id and whose is_admin is false.
C11_Register ==
    [][/\ \A p \in Procs, b \in RegisterBodies :
            ( /\ register(p, b.first_name, b.last_name, b.email, b.password)
              /\ \/ b.first_name = "" \/ b.last_name = "" \/ b.password = ""
                 \/ Strip(b.email) = <<>> )
            => /\ resp' = Reply("register", 400, "Missing fields")
               /\ UNCHANGED <<stores, tokens, req>>
       /\ \A u \in users' \ users : u.is_admin = FALSE
       /\ \A p \in Procs :
            (register_commit(p) /\ resp'.code = 201) =>
               \E u \in users' \ users :
                  /\ users' = users \cup {u}
                  /\ tokens' \ tokens =
                       {[sub |-> u.id, email |-> u.email, is_admin |-> FALSE, signed |-> TRUE]}]_vars

\* An identity was registered, and a register with an empty field was refused.
C11_Witness ==
    /\ resp = Reply("register", 400, "Missing fields")
    /\ \E u \in users : u.id = gen_id("u", 1) /\ ~u.is_admin

\* The identities that a login body matches: the trimmed, lowercased email is
\* theirs and the password verifies against their hash.
Matching(b) ==
    {u \in users : u.email = Lower(Strip(b.email)) /\ u.password = <<"hash", b.password>>}

\* C12 as stated: login answers 200 with a token exactly when the body
\* matches a stored identity, the token carrying that identity's id, email and
\* is_admin; every other login is answered 401 'Invalid email or password';
\* login changes no table.
C12_LoginAsStated ==
    [][\A p \in Procs, b \in LoginBodies :
         login(p, b.email, b.password) =>
           /\ UNCHANGED stores
           /\ IF Matching(b) # {}
              THEN /\ resp' = Reply("login", 200, "")
                   /\ \E u \in Matching(b) :
                        tokens' = tokens \cup {[sub |-> u.id, email |-> u.email,
                                                is_admin |-> u.is_admin, signed |-> TRUE]}
              ELSE /\ resp' = Reply("login", 401, "Invalid email or password")
                   /\ tokens' = tokens]_vars

\* C12, amended: as above, except that a login whose trimmed email or whose
\* password is empty is answered 400 'email and password required'.
C12_Login ==
    [][\A p \in Procs, b \in LoginBodies :
         login(p, b.email, b.password) =>
           /\ UNCHANGED stores
           /\ IF Matching(b) # {}
              THEN /\ resp' = Reply("login", 200, "")
                   /\ \E u \in Matching(b) :
                        tokens' = tokens \cup {[sub |-> u.id, email |-> u.email,
                                                is_admin |-> u.is_admin, signed |-> TRUE]}
              ELSE /\ tokens' = tokens
                   /\ resp' = IF Strip(b.email) = <<>> \/ b.password = ""
                              THEN Reply("login", 400, "email and password required")
                              ELSE Reply("login", 401, "Invalid email or password")]_vars

\* A login was refused while the store holds a registered identity and a
\* token from an earlier login or register is out.
C12_Witness ==
    /\ resp = Reply("login", 401, "Invalid email or password")
    /\ tokens # {}
    /\ \E u \in users : u.id = gen_id("u", 1)

\* The identity a token was issued to is gone, or its is_admin is no longer
\* the one the token carries.
Stale(tok) == ~\E u \in users : u.id = tok.sub /\ u.is_admin = tok.is_admin

\* C13: a token issued to an identity that has since been deleted or whose
\* is_admin has since changed is never answered 401; at an admin-gated
\* handler it is answered 403 exactly when the is_admin it carries is false;
\* delete_review of an existing review refuses it (403) exactly when it
\* carries is_admin false and its subject is not the review's user_id.
C13_ClaimsDecide ==
    [][\A p \in Procs, tok \in tokens :
         Stale(tok) =>
           /\ (StartsAdminGated(p) /\ AdminGatedRequest(p, tok)) =>
                /\ resp'.code # 401
                /\ resp'.code = 403 <=> ~tok.is_admin
           /\ \A R \in reviews :
                delete_review(p, tok, R.id) =>
                  /\ resp'.code # 401
                  /\ resp'.code = 403 <=> ~(tok.is_admin \/ R.user_id = tok.sub)
                  /\ resp'.code # 403 => req'[p].pc = "delete_review_commit"]_vars

\* An admin-gated request was granted while no stored identity is an
\* administrator: the token it carried is a deleted administrator's, or one
\* issued to the demo account before its is_admin was revoked.
C13_Witness ==
    /\ resp = Reply("list_users", 200, "")
    /\ \A u \in users : ~u.is_admin

\* C14: every stored place has a non-empty title and a non-negative price.
C14_ValidPlaces == \A pl \in places : pl.title # "" /\ pl.price >= 0

\* C15: every stored review has a non-empty text and a rating from 1 to 5, in
\* run_simple.py, in mock_server.py and in server_simple.py.
C15_ValidReviews ==
    /\ \A r \in reviews : Strip(r.text) # <<>> /\ r.rating \in 1..5
    /\ \A i \in 1..Len(REVIEWS) : Strip(REVIEWS[i].text) # <<>> /\ REVIEWS[i].rating \in 1..5
    /\ \A i \in 1..Len(reviews_db) :
         Strip(reviews_db[i].comment) # <<>> /\ reviews_db[i].rating \in 1..5

\* C16: exactly one stored identity has is_admin true, and it is the
\* designated admin account.
C16_OneAdmin ==
    /\ Cardinality({u \in users : u.is_admin}) = 1
    /\ \A u \in users : u.is_admin => u.email = admin_email

\* C17: a Create Review with all its fields, for an existing place on which
\* the user already has a review, none of them with the new text and rating,
\* goes on to store the new review; in run_simple.py and in mock_server.py.
C17_DistinctAllowed ==
    [][\A p \in Procs :
         /\ \A tok \in tokens, b \in ReviewBodies :
              ( /\ create_review(p, tok, b.place_id, b.text, b.rating)
                /\ b.text # <<>> /\ b.rating # Missing
                /\ \E pl \in places : pl.id = b.place_id
                /\ \E r \in reviews : r.user_id = tok.sub /\ r.place_id = b.place_id
                /\ \A r \in reviews :
                     (r.user_id = tok.sub /\ r.place_id = b.place_id)
                       => <<r.text, r.rating>> # <<Strip(b.text), b.rating[1]>> )
              => req'[p].pc = "create_review_commit"
         /\ \A b \in MockReviewBodies :
              ( /\ reviews_list(p, b.text, b.rating, b.user_id, b.place_id)
                /\ b.text # <<>> /\ b.rating \notin {Missing, <<0>>}
                /\ \E i \in 1..Len(REVIEWS) :
                     REVIEWS[i].user_id = b.user_id /\ REVIEWS[i].place_id = b.place_id
                /\ \A i \in 1..Len(REVIEWS) :
                     (REVIEWS[i].user_id = b.user_id /\ REVIEWS[i].place_id = b.place_id)
                       => <<REVIEWS[i].text, REVIEWS[i].rating>> # <<b.text, b.rating[1]>> )
              => call'[p].pc = "reviews_append"]_vars

\* C18: no two entries of PLACES have the same id, nor two of REVIEWS, nor
\* two of reviews_db.
C18_UniqueIds ==
    /\ \A i, j \in 1..Len(PLACES) : PLACES[i].id = PLACES[j].id => i = j
    /\ \A i, j \in 1..Len(REVIEWS) : REVIEWS[i].id = REVIEWS[j].id => i = j
    /\ \A i, j \in 1..Len(reviews_db) : reviews_db[i].id = reviews_db[j].id => i = j

====
